---- MODULE Spec2Model ----
(***************************************************************************)
(* A model of the two cores of the trace agent:                            *)
(*   quantile/summary.go  - the Greenwald-Khanna summary over a skiplist   *)
(*   sampler/signature.go - the signature sampler                          *)
(*                                                                         *)
(* Representation of the skiplist.  A Skiplist is its height and the       *)
(* sequence of its data nodes in level-0 order, each node carrying its     *)
(* Entry and its level (len(node.next) - 1).  The head sentinel is index 0 *)
(* and is not stored; "no node" (nil) as a next pointer is written 0 too,  *)
(* since nothing ever points forward to the head.  The lane of level i is  *)
(* the subsequence of the nodes of level >= i: Insert links the new node   *)
(* on lane i right after the node where the descent left lane i, and that  *)
(* node is at or before the level-0 predecessor while its lane-i successor *)
(* is after it, so every lane stays a subsequence of lane 0.  next[i] and  *)
(* prev[i] are therefore derived (NextAt, PrevAt) instead of stored.       *)
(*                                                                         *)
(* A Samples slice is a slice header [arr, len] into the memory of the Go   *)
(* program (mem): Entry values are copied with their headers, so copies    *)
(* share a backing array, and append writes into that array when it has    *)
(* room.  EncodedData is a sequence of Entry values.  Floats that the code *)
(* only uses as EPSILON multiples are exact rationals EpsNum / EpsDen      *)
(* (int(2*0.01*float64(n)) = n \div 50 and int(0.01*float64(n)) =          *)
(* n \div 100 for all n the model reaches).                                *)
(***************************************************************************)
EXTENDS Integers, Sequences, FiniteSets, TLC

\* quantile/summary.go:25   EPSILON = 0.01 = EpsNum / EpsDen
EpsNum == 1
EpsDen == 100
\* quantile/summary.go:262
maxHeight == 31

----------------------------------------------------------------------------
\* Bounds of the exploration

\* Spec stops inserting when N reaches MaxN (three compress rounds and two more)
MaxN == 152
\* SpecMerge: at most MaxInserts Insert calls in all, and at most MaxOps
\* Merge, encode and decode calls
MaxInserts == 3
MaxOps == 2
\* SpecMerge: Merge is explored while the merged counter stays within MaxMergedN
MaxMergedN == 4
\* SpecMerge: Merge and the decoders are explored while the list they build
\* has at most MaxTuples nodes
MaxTuples == 5
\* SpecSkiplist: at most MaxNodes nodes in the list, at most MaxSkipOps inserts
MaxNodes == 4
MaxSkipOps == 5
\* SpecShare: the stream into A stops when A.N reaches MaxShareN (the third
\* compress)
MaxShareN == 150
\* SpecTall: lists of at most MaxTallNodes nodes
MaxTallNodes == 2
\* SpecSignature: traces of at most MaxSpans spans
MaxSpans == 3
\* SpecSampler: at most MaxCalls calls of AddTrace and Flush together, on a
\* clock that runs from 0 to MaxTime
MaxCalls == 3
MaxTime == 1

\* the two summaries of the model
Names == {"A", "B"}
\* values offered to Insert in Spec
DeepValues == {1, 2, 3}
\* positions, counted from the last compress, where the stream of Spec may
\* change value; elsewhere it repeats the value inserted last
FreeSlots == {0, 1}
\* values offered to Insert in SpecMerge
SmallValues == {-1, 1}
\* values offered to Skiplist.Insert in SpecSkiplist
SkipValues == {-1, 1, 2}
AllValues == DeepValues \cup SmallValues
\* results of rand.Int31() offered to Skiplist.Insert: the summaries read
\* lane 0 only, the lanes above are explored in SpecSkiplist
SummaryDraws == {0}
\* SpecTall: values, and draws of rand.Int31() with no and with 31 trailing ones
TallValues == {1, 2}
TallDraws == {0, 2147483647}
SkipDraws == {0, 1, 3, 7}
\* the quantiles queried: q = QSet[1] / QSet[2]
QSet == {<<0, 4>>, <<1, 4>>, <<2, 4>>, <<3, 4>>, <<4, 4>>}

----------------------------------------------------------------------------
VARIABLES
    sums,       \* sums[x]: the Summary named x (data, EncodedData, N)
    mem,        \* the Go release of the build and the backing arrays of the Samples slices
    wire,       \* the payload last produced by MarshalJSON / GobEncode
    nextId,     \* the next fresh span id handed to Insert
    hist,       \* history: per summary, the values and span ids inserted
    wireHist,   \* history: hist of the summary the payload was encoded from
    last,       \* history: the last operation and its arguments
    ops,        \* history: the number of Merge, encode and decode calls so far
    sigs,       \* SpecSignature: per slot, a trace and the signature computed for it
    sampler,    \* the SignatureSampler: its map, its buffer, its tunables, its mutex
    pc,         \* pc[p]: where goroutine p stands in AddTrace or Flush
    local,      \* local[p]: the locals of the call goroutine p is in
    now,        \* the clock time.Now() reads, in ticks
    track       \* history: calls started, critical sections completed, calls accepted, slices returned

summaryVars == <<sums, mem, wire, nextId, hist, wireHist, last, ops>>
samplerVars == <<sampler, pc, local, now, track>>
vars == <<sums, mem, wire, nextId, hist, wireHist, last, ops, sigs,
          sampler, pc, local, now, track>>

----------------------------------------------------------------------------
\* Slices of uint64 in the memory of the Go program.  mem.arrays[a] is the
\* backing array a, as long as the capacity of the slices on it.  A slice is
\* the header [arr |-> a, len |-> n]: it starts at the first cell of its array
\* (the code never reslices), and arr = 0 is the nil slice.  How far append
\* grows a full slice, and the capacity of a slice the JSON decoder builds,
\* are not fixed by the code but by the Go release it is built with: mem.go
\* names the release, and each element of Builds stands for the releases that
\* share its rules ("go1.15": up to 1.15, "go1.17": 1.16 and 1.17, "go1.20":
\* 1.18 to 1.20, "go1.21": from 1.21 on).

Builds == {"go1.15", "go1.17", "go1.20", "go1.21"}

\* the allocator has a 24-byte size class
HasClass24(go) == go # "go1.15"

\* append tests the capacity, not the length, of the slice it grows
GrowsByCap(go) == go # "go1.15"

\* append grows slices of 256 elements and more by (cap + 768) / 4
SmoothGrowth(go) == go \in {"go1.20", "go1.21"}

\* encoding/json grows the slice it decodes into with reflect.Value.Grow
JSONGrows(go) == go = "go1.21"

\* unsafe.Sizeof(uint64(0)), the element size of Samples
Uint64Size == 8

\* the object sizes of the allocator, in bytes
SizeClasses(go) ==
    (IF HasClass24(go) THEN <<8, 16, 24>> ELSE <<8, 16>>) \o
    <<32, 48, 64, 80, 96, 112, 128, 144, 160, 176, 192, 208, 224, 240, 256,
      288, 320, 352, 384, 416, 448, 480, 512, 576, 640, 704, 768, 896, 1024,
      1152, 1280, 1408, 1536, 1792, 2048, 2304, 2688, 3072, 3200, 3456, 4096,
      4864, 5120, 5376, 6144, 6528, 6784, 6912, 8192, 9472, 9728, 10240,
      10880, 12288, 13568, 14336, 16384, 18432, 19072, 20480, 21760, 24576,
      27264, 28672, 32768>>

\* roundupsize: the size of the object that holds size bytes (a size class, or
\* whole pages of 8192 bytes above the largest class)
RoundUpSize(go, size) ==
    LET cs == SizeClasses(go)
    IN IF size > cs[Len(cs)]
       THEN ((size + 8191) \div 8192) * 8192
       ELSE cs[CHOOSE i \in 1..Len(cs) :
                   cs[i] >= size /\ (i = 1 \/ cs[i - 1] < size)]

\* for newcap < cap { newcap += newcap / 4 }
RECURSIVE GrowQuarter(_, _)
GrowQuarter(newcap, needed) ==
    LET c == newcap + newcap \div 4
    IN IF c >= needed THEN c ELSE GrowQuarter(c, needed)

\* for newcap < cap { newcap += (newcap + 3*256) / 4 }
RECURSIVE GrowSmooth(_, _)
GrowSmooth(newcap, needed) ==
    LET c == newcap + (newcap + 768) \div 4
    IN IF c >= needed THEN c ELSE GrowSmooth(c, needed)

\* growslice: the capacity of the array append allocates for a slice of
\* oldLen elements and capacity oldCap that must hold needed > oldCap elements
GrowCap(go, oldLen, oldCap, needed) ==
    LET doublecap == oldCap + oldCap
        newcap ==
            IF needed > doublecap THEN needed
            ELSE IF SmoothGrowth(go)
            THEN IF oldCap < 256 THEN doublecap ELSE GrowSmooth(oldCap, needed)
            ELSE IF (IF GrowsByCap(go) THEN oldCap ELSE oldLen) < 1024
            THEN doublecap
            ELSE GrowQuarter(oldCap, needed)
    IN RoundUpSize(go, newcap * Uint64Size) \div Uint64Size

NilSlice == [arr |-> 0, len |-> 0]

\* cap(s)
Cap(m, s) == IF s.arr = 0 THEN 0 ELSE Len(m.arrays[s.arr])

\* the elements of s
Elems(m, s) == IF s.arr = 0 THEN <<>> ELSE SubSeq(m.arrays[s.arr], 1, s.len)

\* a new array of capacity c that starts with xs, and the slice of xs on it
MakeSlice(m, xs, c) ==
    [mem |-> [m EXCEPT !.arrays = Append(@, xs \o [i \in 1..(c - Len(xs)) |-> 0])],
     slice |-> [arr |-> Len(m.arrays) + 1, len |-> Len(xs)]]

\* append(s, xs...): xs is written behind s into the array of s when it has
\* room, and every slice on that array sees the cells written; a full slice
\* moves to a new array
append(m, s, xs) ==
    IF xs = <<>>
    THEN [mem |-> m, slice |-> s]
    ELSE IF s.len + Len(xs) <= Cap(m, s)
    THEN [mem |-> [m EXCEPT !.arrays[s.arr] =
                      SubSeq(@, 1, s.len) \o xs \o
                      SubSeq(@, s.len + Len(xs) + 1, Len(@))],
          slice |-> [s EXCEPT !.len = s.len + Len(xs)]]
    ELSE MakeSlice(m, Elems(m, s) \o xs,
                   GrowCap(m.go, s.len, Cap(m, s), s.len + Len(xs)))

\* encoding/json before reflect.Value.Grow: newcap = cap + cap/2, at least 4
RECURSIVE JSONCapFrom(_, _)
JSONCapFrom(c, n) == IF n <= c THEN c ELSE JSONCapFrom(c + c \div 2, n)

\* encoding/json with reflect.Value.Grow(1), which grows like append
RECURSIVE JSONGrowCap(_, _, _)
JSONGrowCap(go, c, n) ==
    IF n <= c THEN c ELSE JSONGrowCap(go, GrowCap(go, c, c, c + 1), n)

\* the capacity of a slice of n >= 1 elements decoded from a JSON array
JSONCap(go, n) == IF JSONGrows(go) THEN JSONGrowCap(go, 0, n) ELSE JSONCapFrom(4, n)

\* The garbage collector: arrays no slice of the summaries refers to are
\* gone.  The names of the arrays cannot be observed, so the arrays left are
\* numbered in the order in which the summaries refer to them.
NameOrder == <<"A", "B">>

Slices(s) ==
    [k \in 1..Len(s.data.nodes) |-> s.data.nodes[k].value.Samples] \o
    [k \in 1..Len(s.EncodedData) |-> s.EncodedData[k].Samples]

\* (no length is negative: the tests on Len(seen) here, and on lengths in
\* InsertAll and DecodeEntries, have the argument evaluated at every step)
RECURSIVE LiveArrays(_, _, _)
LiveArrays(hs, k, seen) ==
    IF k > Len(hs) \/ Len(seen) < 0 THEN seen
    ELSE LiveArrays(hs, k + 1,
                    IF hs[k].arr = 0 \/ \E i \in DOMAIN seen : seen[i] = hs[k].arr
                    THEN seen ELSE Append(seen, hs[k].arr))

Renamed(s, ren) ==
    LET at(h) == IF h.arr = 0 THEN h ELSE [h EXCEPT !.arr = ren[h.arr]]
    IN [s EXCEPT
          !.data.nodes = [k \in 1..Len(@) |-> [@[k] EXCEPT !.value.Samples = at(@)]],
          !.EncodedData = [k \in 1..Len(@) |-> [@[k] EXCEPT !.Samples = at(@)]]]

Collect(ss, m) ==
    LET live == LiveArrays(Slices(ss[NameOrder[1]]) \o Slices(ss[NameOrder[2]]), 1, <<>>)
        ren  == [a \in {live[i] : i \in DOMAIN live} |->
                    CHOOSE i \in DOMAIN live : live[i] = a]
    IN [sums |-> [x \in Names |-> Renamed(ss[x], ren)],
        mem  |-> [m EXCEPT !.arrays = [i \in 1..Len(live) |-> m.arrays[live[i]]]]]

\* the summary as a caller reads it: every Samples slice by its elements
Read(m, s) ==
    [s EXCEPT
       !.data.nodes = [k \in 1..Len(@) |->
                          [@[k] EXCEPT !.value.Samples = Elems(m, @)]],
       !.EncodedData = [k \in 1..Len(@) |-> [@[k] EXCEPT !.Samples = Elems(m, @)]]]

----------------------------------------------------------------------------
\* Entry and Skiplist

Entry(v, g, d, s) == [V |-> v, G |-> g, Delta |-> d, Samples |-> s]

\* the zero value of Entry: the value field of the head sentinel
ZeroEntry == Entry(0, 0, 0, NilSlice)

NewSkiplist == [height |-> 0, nodes |-> <<>>]

NewSummary == [data |-> NewSkiplist, EncodedData |-> <<>>, N |-> 0]

\* the entries of the data nodes, in level-0 order
Tuples(s) == [k \in 1..Len(s.data.nodes) |-> s.data.nodes[k].value]

\* the first node of level >= i at index j or later, 0 when there is none
RECURSIVE FirstFrom(_, _, _)
FirstFrom(sl, j, i) ==
    IF j > Len(sl.nodes) THEN 0
    ELSE IF sl.nodes[j].level >= i THEN j
    ELSE FirstFrom(sl, j + 1, i)

\* the last node of level >= i at index j or earlier, 0 (the head) when none
RECURSIVE LastUpTo(_, _, _)
LastUpTo(sl, j, i) ==
    IF j < 1 THEN 0
    ELSE IF sl.nodes[j].level >= i THEN j
    ELSE LastUpTo(sl, j - 1, i)

\* node k's next[i]: the first node after k on lane i, 0 for nil
NextAt(sl, k, i) == FirstFrom(sl, k + 1, i)

\* node k's prev[i]: the last node before k on lane i, 0 for the head
PrevAt(sl, k, i) == LastUpTo(sl, k - 1, i)

\* for n&1 == 1 { level++; n >>= 1 }
RECURSIVE TrailingOnes(_)
TrailingOnes(n) == IF n % 2 = 1 THEN 1 + TrailingOnes(n \div 2) ELSE 0

\* an advance that stops at the first node of equal value
RECURSIVE AdvanceStrict(_, _, _, _)
AdvanceStrict(sl, e, i, curr) ==
    LET nx == NextAt(sl, curr, i)
    IN IF nx # 0 /\ e.V > sl.nodes[nx].value.V
       THEN AdvanceStrict(sl, e, i, nx)
       ELSE curr

\* for curr.next[i] != nil && e.V >= curr.next[i].value.V { curr = curr.next[i] }
RECURSIVE Advance(_, _, _, _)
Advance(sl, e, i, curr) ==
    LET nx == NextAt(sl, curr, i)
    IN IF nx # 0 /\ e.V >= sl.nodes[nx].value.V
       THEN Advance(sl, e, i, nx)
       ELSE curr

\* the descent for i := s.height; i >= 0; i--: the node reached on lane 0
\* (c is never negative: the test has c evaluated before the next lane is entered)
RECURSIVE Descend(_, _, _, _)
Descend(sl, e, i, curr) ==
    LET c == Advance(sl, e, i, curr)
    IN IF i = 0 \/ c < 0 THEN c ELSE Descend(sl, e, i - 1, c)

InsertAt(nodes, k, nd) ==
    SubSeq(nodes, 1, k) \o <<nd>> \o SubSeq(nodes, k + 1, Len(nodes))

RemoveAt(nodes, k) ==
    SubSeq(nodes, 1, k - 1) \o SubSeq(nodes, k + 1, Len(nodes))

\* Skiplist.Insert: the list after the insert and the index of the new node
SkiplistInsert(sl, e, n) ==
    LET drawn  == TrailingOnes(n)
        height == IF drawn > sl.height THEN sl.height + 1 ELSE sl.height
        level  == IF drawn > sl.height THEN sl.height + 1 ELSE drawn
        grown  == [sl EXCEPT !.height = height]
        curr   == Descend(grown, e, height, 0)
    IN [sl |-> [grown EXCEPT !.nodes =
                   InsertAt(sl.nodes, curr, [value |-> e, level |-> level])],
        at |-> curr + 1]

\* Skiplist.Insert panics when the height, after it has grown, is no index of
\* the head's next array: s.head.next[s.height] with len(s.head.next) = maxHeight
SkiplistInsertPanics(sl, n) ==
    TrailingOnes(n) > sl.height /\ sl.height + 1 >= maxHeight

\* the list a panicking Insert leaves behind: s.height++ has run
SkiplistInsertPanicked(sl) == [sl EXCEPT !.height = sl.height + 1]

\* Skiplist.Remove: the node leaves every lane it is on
SkiplistRemove(sl, k) == [sl EXCEPT !.nodes = RemoveAt(sl.nodes, k)]

----------------------------------------------------------------------------
\* Summary

\* int(2 * EPSILON * float64(n))
TwoEpsN(n) == (2 * EpsNum * n) \div EpsDen

\* int(EPSILON * float64(n))
EpsN(n) == (EpsNum * n) \div EpsDen

\* int(1.0 / float64(2.0*EPSILON)): Insert compresses every CompressEvery-th call
CompressEvery == EpsDen \div (2 * EpsNum)

WithValue(nodes, k, val) == [nodes EXCEPT ![k].value = val]

\* compress, "value merging" (t.V == nt.V): the new nt, the new missing and
\* the memory after the append
ValueMerge(m, t, nt, missing) ==
    LET app == append(m, nt.Samples, Elems(m, t.Samples))
    IN [nt |-> [nt EXCEPT !.Delta = nt.Delta + (missing + nt.G),
                          !.G = t.G,
                          !.Samples = app.slice],
        missing |-> missing + nt.G,
        mem |-> app.mem]

\* a band merge that forgets the samples of the tuple it removes
BandMergeDropSamples(m, t, nt, missing) ==
    [nt |-> [nt EXCEPT !.G = nt.G + t.G + missing], missing |-> 0, mem |-> m]

\* compress, the band merge (t.G+nt.G+missing+nt.Delta < epsN)
BandMerge(m, t, nt, missing) ==
    LET app == append(m, nt.Samples, Elems(m, t.Samples))
    IN [nt |-> [nt EXCEPT !.G = nt.G + t.G + missing,
                          !.Samples = app.slice],
        missing |-> 0,
        mem |-> app.mem]

\* compress, the else branch: nothing is removed
NoMerge(m, t, nt, missing) ==
    [nt |-> [nt EXCEPT !.G = nt.G + missing], missing |-> 0, mem |-> m]

\* The sweep of compress from the node at index k on.  cases collects which of
\* the three branches ran (history only: it does not influence the sweep).
RECURSIVE CompressSweep(_, _, _, _, _, _)
CompressSweep(m, sl, k, missing, epsN, cases) ==
    IF k >= Len(sl.nodes)
    THEN [sl |-> sl, mem |-> m, cases |-> cases]
    ELSE LET t  == sl.nodes[k].value
             nt == sl.nodes[k + 1].value
         IN IF t.V = nt.V
            THEN LET r == ValueMerge(m, t, nt, missing)
                 IN CompressSweep(r.mem,
                        SkiplistRemove(
                            [sl EXCEPT !.nodes = WithValue(sl.nodes, k + 1, r.nt)], k),
                        k, r.missing, epsN, cases \cup {"value"})
            ELSE IF t.G + nt.G + missing + nt.Delta < epsN
            THEN LET r == BandMerge(m, t, nt, missing)
                 IN CompressSweep(r.mem,
                        SkiplistRemove(
                            [sl EXCEPT !.nodes = WithValue(sl.nodes, k + 1, r.nt)], k),
                        k, r.missing, epsN, cases \cup {"band"})
            ELSE LET r == NoMerge(m, t, nt, missing)
                 IN CompressSweep(r.mem,
                        [sl EXCEPT !.nodes = WithValue(sl.nodes, k + 1, r.nt)],
                        k + 1, r.missing, epsN, cases \cup {"none"})

\* a compress that sweeps nothing
compressNothing(m, s) == [s |-> s, mem |-> m]

\* Summary.compress: the summary and the memory after the sweep
compress(m, s) ==
    LET swept == CompressSweep(m, s.data, 1, 0, TwoEpsN(s.N), {})
    IN [s |-> [s EXCEPT !.data = swept.sl], mem |-> swept.mem]

\* the branches compress(s) takes
CompressCases(m, s) == CompressSweep(m, s.data, 1, 0, TwoEpsN(s.N), {}).cases

\* Summary.Insert up to and including the Delta assignment (lines 129-142)
InsertEntry(m, s, v, t, n) ==
    LET lit  == MakeSlice(m, <<t>>, 1)
        ins  == SkiplistInsert(s.data, Entry(v, 1, 0, lit.slice), n)
        N1   == s.N + 1
        eptr == ins.at
        interior == /\ PrevAt(ins.sl, eptr, 0) # 0
                    /\ NextAt(ins.sl, eptr, 0) # 0
        e2   == [ins.sl.nodes[eptr].value EXCEPT !.Delta = TwoEpsN(N1)]
    IN [s |-> [s EXCEPT
                 !.N = N1,
                 !.data = IF interior
                          THEN [ins.sl EXCEPT !.nodes = WithValue(ins.sl.nodes, eptr, e2)]
                          ELSE ins.sl],
        mem |-> lit.mem]

\* Summary.Insert
SummaryInsert(m, s, v, t, n) ==
    LET r == InsertEntry(m, s, v, t, n)
    IN IF r.s.N % CompressEvery = 0 THEN compress(r.mem, r.s) ELSE r

\* the loop of Quantile from the node at index k on; ok = FALSE is
\* panic("not reached")
RECURSIVE QuantileFrom(_, _, _, _, _)
QuantileFrom(sl, k, rmin0, r, epsN) ==
    IF k = 0 \/ k > Len(sl.nodes)
    THEN [ok |-> FALSE, V |-> 0, Samples |-> <<>>]
    ELSE LET t    == sl.nodes[k].value
             rmin == rmin0 + t.G
             n    == NextAt(sl, k, 0)
         IN IF n = 0
            THEN [ok |-> TRUE, V |-> t.V, Samples |-> t.Samples]
            ELSE LET nv == sl.nodes[n].value
                 IN IF r + epsN < rmin + nv.G + nv.Delta
                    THEN IF r + epsN < rmin + nv.G
                         THEN [ok |-> TRUE, V |-> t.V, Samples |-> t.Samples]
                         ELSE [ok |-> TRUE, V |-> nv.V, Samples |-> nv.Samples]
                    ELSE QuantileFrom(sl, n, rmin, r, epsN)

\* r := int(q*float64(s.N) + 0.5) for q = q[1]/q[2]
QuantileRank(nN, q) == (2 * q[1] * nN + q[2]) \div (2 * q[2])

\* a Quantile whose loop starts one node late
QuantileSkipFirst(s, q) ==
    QuantileFrom(s.data, NextAt(s.data, NextAt(s.data, 0, 0), 0), 0,
                 QuantileRank(s.N, q), EpsN(s.N))

\* Summary.Quantile
Quantile(s, q) ==
    QuantileFrom(s.data, NextAt(s.data, 0, 0), 0, QuantileRank(s.N, q), EpsN(s.N))

\* Summary.BySlices
BySlices(s) ==
    [k \in 1..Len(s.data.nodes) |->
        LET cur  == s.data.nodes[k].value
            lst  == IF k = 1 THEN ZeroEntry ELSE s.data.nodes[k - 1].value
        IN [Start |-> lst.V, End |-> cur.V,
            Weight |-> cur.G + cur.Delta - 1, Samples |-> cur.Samples]]

\* the values of the nodes a walk from s.data.head visits: the head's first
FromHead(s) == <<ZeroEntry>> \o Tuples(s)

\* for each e of es, in order: sl.Insert(e), the k-th insert drawing ns[k]
RECURSIVE InsertAll(_, _, _)
InsertAll(sl, es, ns) ==
    IF es = <<>> \/ Len(sl.nodes) < 0 THEN sl
    ELSE InsertAll(SkiplistInsert(sl, Head(es), Head(ns)).sl, Tail(es), Tail(ns))

\* Summary.Merge: the receiver and the memory after the call.  The entries of
\* s2 are inserted as they are, so the nodes added share their Samples arrays
\* with the nodes of s2.
Merge(m, s, s2, ns) ==
    IF s2.N = 0
    THEN [s |-> s, mem |-> m]
    ELSE compress(m, [s EXCEPT !.N = s.N + s2.N,
                               !.data = InsertAll(s.data, FromHead(s2), ns)])

----------------------------------------------------------------------------
\* Serialization.  A JSON payload is the object the encoder writes, with the
\* keys of the struct tags; the samples of a payload are the numbers written,
\* and <<>> is the null a nil slice is written as (an empty slice that is not
\* nil does not occur).  A gob payload carries, for every struct, only the
\* fields that are not zero or empty (gob omits them and the decoder leaves
\* them at their zero value).

JSONEntry(m, e) ==
    [v |-> e.V, g |-> e.G, delta |-> e.Delta, samples |-> Elems(m, e.Samples)]

EntryOfJSON(o) == Entry(o.v, o.g, o.delta, o.samples)

\* Summary.MarshalJSON (value receiver: the caller's EncodedData is untouched)
MarshalJSON(m, s) ==
    LET flat == FromHead(s)
    IN [fmt |-> "json",
        body |-> [data |-> [k \in 1..Len(flat) |-> JSONEntry(m, flat[k])],
                  n |-> s.N]]

\* the entries of a payload decoded one after the other from entry k on: a
\* Samples array becomes a new slice of capacity caps[k], null or a field
\* left out the nil slice
RECURSIVE DecodeEntries(_, _, _, _, _)
DecodeEntries(m, raw, k, caps, enc) ==
    IF k > Len(raw) \/ Len(m.arrays) < 0 \/ Len(enc) < 0
    THEN [mem |-> m, enc |-> enc]
    ELSE LET xs  == raw[k].Samples
             new == IF xs = <<>> THEN [mem |-> m, slice |-> NilSlice]
                    ELSE MakeSlice(m, xs, caps[k])
         IN DecodeEntries(new.mem, raw, k + 1, caps,
                          Append(enc, [raw[k] EXCEPT !.Samples = new.slice]))

\* Summary.UnmarshalJSON of a well-formed payload: EncodedData and the nodes
\* hold the same entries, so they share their Samples arrays
UnmarshalJSON(m, b, ns) ==
    LET raw  == [k \in 1..Len(b.body.data) |-> EntryOfJSON(b.body.data[k])]
        caps == [k \in 1..Len(raw) |-> JSONCap(m.go, Len(raw[k].Samples))]
        dec  == DecodeEntries(m, raw, 1, caps, <<>>)
    IN [s |-> [data |-> InsertAll(NewSkiplist, dec.enc, ns),
               EncodedData |-> dec.enc,
               N |-> b.body.n],
        mem |-> dec.mem]

GobFields(rec, zero) == [f \in {g \in DOMAIN rec : rec[g] # zero[g]} |-> rec[f]]

GobField(w, f, zero) == IF f \in DOMAIN w THEN w[f] ELSE zero[f]

\* the zero value of Entry on the wire
ZeroWireEntry == Entry(0, 0, 0, <<>>)

GobEntry(m, e) == GobFields([e EXCEPT !.Samples = Elems(m, @)], ZeroWireEntry)

EntryOfGob(w) ==
    Entry(GobField(w, "V", ZeroWireEntry), GobField(w, "G", ZeroWireEntry),
          GobField(w, "Delta", ZeroWireEntry), GobField(w, "Samples", ZeroWireEntry))

\* the zero value of the exported fields of type summary
ZeroWire == [EncodedData |-> <<>>, N |-> 0]

\* Summary.GobEncode: the receiver after the call (EncodedData is rewritten
\* with the entries of the nodes, which share their Samples arrays)
GobEncodeReceiver(s) == [s EXCEPT !.EncodedData = FromHead(s)]

\* Summary.GobEncode: the bytes
GobEncode(m, s) ==
    LET flat == FromHead(s)
    IN [fmt |-> "gob",
        body |-> GobFields([EncodedData |-> [k \in 1..Len(flat) |-> GobEntry(m, flat[k])],
                            N |-> s.N], ZeroWire)]

\* Summary.GobDecode of a well-formed payload: gob makes a decoded slice of n
\* elements with capacity n
GobDecode(m, b, ns) ==
    LET wired == GobField(b.body, "EncodedData", ZeroWire)
        raw   == [k \in 1..Len(wired) |-> EntryOfGob(wired[k])]
        caps  == [k \in 1..Len(raw) |-> Len(raw[k].Samples)]
        dec   == DecodeEntries(m, raw, 1, caps, <<>>)
    IN [s |-> [data |-> InsertAll(NewSkiplist, dec.enc, ns),
               EncodedData |-> dec.enc,
               N |-> GobField(b.body, "N", ZeroWire)],
        mem |-> dec.mem]

\* The payloads offered to a decoder are the bytes the two encoders wrote and
\* the empty payload; json.Unmarshal fails on all but the first kind, the gob
\* decoder on all but the second.
JSONMalformed(b) == b.fmt # "json"

GobMalformed(b) == b.fmt # "gob"

\* a decoder that resets the receiver before it looks at the error
UnmarshalJSONIntoEager(m, s, b, ns) ==
    IF JSONMalformed(b)
    THEN [s |-> [data |-> NewSkiplist, EncodedData |-> <<>>, N |-> 0], mem |-> m]
    ELSE UnmarshalJSON(m, b, ns)

\* Summary.UnmarshalJSON with receiver s: a failed json.Unmarshal returns the
\* error before s is assigned
UnmarshalJSONInto(m, s, b, ns) ==
    IF JSONMalformed(b) THEN [s |-> s, mem |-> m] ELSE UnmarshalJSON(m, b, ns)

\* Summary.GobDecode with receiver s: a failed Decode returns the error before
\* s is assigned
GobDecodeInto(m, s, b, ns) ==
    IF GobMalformed(b) THEN [s |-> s, mem |-> m] ELSE GobDecode(m, b, ns)

----------------------------------------------------------------------------
\* History

NoValues == [v \in AllValues |-> 0]

\* nothing inserted.  pure: the summary was built by Insert calls only;
\* merged: it is the result of one Merge of two such summaries
NewHist == [vals |-> NoValues, ids |-> {}, pure |-> TRUE, merged |-> FALSE]

NoWire == [fmt |-> "none", body |-> <<>>]

Op(op, x, y, v, cases) == [op |-> op, x |-> x, y |-> y, v |-> v, cases |-> cases]

----------------------------------------------------------------------------
\* sampler/signature.go: signatures.  A string is the sequence of its bytes; a
\* 32-bit hash is the pair <<high 16 bits, low 16 bits>>.

W16 == 2^16

\* a ^ b on naturals
RECURSIVE Xor(_, _)
Xor(a, b) ==
    IF a = 0 THEN b
    ELSE IF b = 0 THEN a
    ELSE 2 * Xor(a \div 2, b \div 2) + (((a % 2) + (b % 2)) % 2)

Xor32(h, g) == <<Xor(h[1], g[1]), Xor(h[2], g[2])>>

\* fnv.New32a(): the offset basis 0x811C9DC5
FnvOffset == <<33052, 40389>>

\* h * 0x01000193 (the FNV prime) modulo 2^32
FnvMul(h) ==
    <<(h[1] * 403 + h[2] * 256 + ((h[2] * 403) \div W16)) % W16, (h[2] * 403) % W16>>

\* h.Write(bytes) of the FNV-1a hash: for each byte, xor then multiply
RECURSIVE FnvWrite(_, _)
FnvWrite(h, bytes) ==
    IF bytes = <<>> THEN h
    ELSE FnvWrite(FnvMul(<<h[1], Xor(h[2], Head(bytes))>>), Tail(bytes))

\* byte(span.Error)
ErrorByte(span) == span.Error % 256

computeSpanHash(span) ==
    FnvWrite(FnvWrite(FnvWrite(FnvOffset, span.Service), span.Name),
             <<ErrorByte(span)>>)

computeRootHash(span) ==
    FnvWrite(FnvWrite(FnvWrite(FnvWrite(FnvOffset, span.Service), span.Name),
                      span.Resource),
             <<ErrorByte(span)>>)

\* spanHashSlice.Less
Less(a, b) == a[1] < b[1] \/ (a[1] = b[1] /\ a[2] < b[2])

RECURSIVE InsertSorted(_, _)
InsertSorted(hs, h) ==
    IF hs = <<>> THEN <<h>>
    ELSE IF Less(h, Head(hs)) THEN <<h>> \o hs
    ELSE <<Head(hs)>> \o InsertSorted(Tail(hs), h)

\* the hashes left in the order of the spans
SortHashesNone(hs) == hs

\* SortHashes: the hashes in ascending order
RECURSIVE SortHashes(_)
SortHashes(hs) ==
    IF hs = <<>> THEN <<>> ELSE InsertSorted(SortHashes(Tail(hs)), Head(hs))

\* the dedupe loop: hs[i] is kept when it differs from the hash kept last
RECURSIVE Dedupe(_, _, _)
Dedupe(hs, i, kept) ==
    IF i > Len(hs) THEN kept
    ELSE IF hs[i] # kept[Len(kept)] THEN Dedupe(hs, i + 1, Append(kept, hs[i]))
    ELSE Dedupe(hs, i + 1, kept)

\* for i := 0; i < idx; i++ { traceHash = spanHashes[i] ^ traceHash }
RECURSIVE XorAll(_, _)
XorAll(h, hs) == IF hs = <<>> THEN h ELSE XorAll(Xor32(Head(hs), h), Tail(hs))

\* the index of the span getRoot returns: the last span with ParentID 0, else
\* the last span; 0 stands for the out-of-range access on an empty trace
RECURSIVE RootIndex(_, _)
RootIndex(trace, i) ==
    IF i >= Len(trace) THEN Len(trace)
    ELSE IF trace[Len(trace) - i].ParentID = 0 THEN Len(trace) - i
    ELSE RootIndex(trace, i + 1)

getRoot(trace) == trace[RootIndex(trace, 0)]

\* make([]spanHash, len(trace)) followed by the appends
SpanHashes(trace) ==
    [i \in 1..Len(trace) |-> <<0, 0>>] \o
    [i \in 1..Len(trace) |-> computeSpanHash(trace[i])]

\* ComputeSignature panics on the empty trace (getRoot reads trace[-1])
SignaturePanics(trace) == Len(trace) = 0

\* ComputeSignature of a trace with at least one span
ComputeSignature(trace) ==
    LET sorted == SortHashes(SpanHashes(trace))
    IN XorAll(computeRootHash(getRoot(trace)), Dedupe(sorted, 2, <<sorted[1]>>))

\* the spans offered: two roots that differ in their resource only, and a
\* child of span 1 with the error flag set
Span(service, name, resource, error, parent) ==
    [Service |-> service, Name |-> name, Resource |-> resource,
     Error |-> error, ParentID |-> parent]

SpanPool ==
    { Span(<<119>>, <<114>>, <<47>>, 0, 0),
      Span(<<119>>, <<114>>, <<47, 97>>, 0, 0),
      Span(<<100, 98>>, <<113>>, <<115>>, 1, 1) }

Traces(maxLen) == UNION {[1..k -> SpanPool] : k \in 0..maxLen}

InitSignatures ==
    sigs = [slot \in {1, 2} |-> [trace |-> <<>>, done |-> FALSE, sig |-> <<0, 0>>]]

\* sigs[slot] := ComputeSignature(trace)
ComputeOp(slot, trace) ==
    /\ ~SignaturePanics(trace)
    /\ sigs' = [sigs EXCEPT ![slot] =
                   [trace |-> trace, done |-> TRUE, sig |-> ComputeSignature(trace)]]
    /\ UNCHANGED <<summaryVars, samplerVars>>

----------------------------------------------------------------------------
\* sampler/signature.go: the sampler.  Times are whole ticks.  A score is kept
\* exactly: the time score sqrt(n/d) is the pair <<n, d>> (d > 0), so 5 is
\* <<25, 1>>; the tunables sMin and jitter and the draw of rand.Float64() are
\* fractions <<n, d>>; theta is a positive number of ticks.

\* the goroutines that call the sampler; 0 is no goroutine
Procs == {1, 2}

\* the zero value of sync.Mutex: held by no goroutine
Unlocked == 0

\* Idle goroutines are interchangeable, so the next call is started by the
\* lowest of them.
Starter(p) == pc[p] = "idle" /\ \A q \in Procs : pc[q] = "idle" => p <= q

\* the tunables of the sampler: conf.SamplerSMin, SamplerTheta, SamplerJitter
DefaultConf == [sMin |-> <<1, 1>>, theta |-> 2, jitter |-> <<1, 2>>]
ConfSet == {DefaultConf, [sMin |-> <<3, 1>>, theta |-> 1, jitter |-> <<1, 2>>]}

\* values of rand.Float64() offered to GetScore
USet == {<<0, 1>>, <<15, 16>>}

\* traces offered to AddTrace
SamplerTraces ==
    {<<>>,
     <<Span(<<119>>, <<114>>, <<47>>, 0, 0)>>,
     <<Span(<<100, 98>>, <<113>>, <<115>>, 1, 1), Span(<<119>>, <<114>>, <<47, 97>>, 0, 0)>>}

\* NewSignatureSampler
NewSignatureSampler(conf) ==
    [lastTSBySignature |-> <<>>,
     sampledTraces |-> <<>>,
     sMin |-> conf.sMin, theta |-> conf.theta, jitter |-> conf.jitter,
     mu |-> Unlocked]

\* a time score that is 0 for a signature never seen
GetTimeScoreUnseenZero(s, signature, t) == <<0, 1>>

\* GetTimeScore at clock t: <<n, d>> stands for sqrt(n/d)
GetTimeScore(s, signature, t) ==
    IF signature \notin DOMAIN s.lastTSBySignature
    THEN <<25, 1>>
    ELSE LET delta == t - s.lastTSBySignature[signature]
         IN IF delta <= 0 THEN <<0, 1>>
            ELSE IF delta >= 25 * s.theta THEN <<25, 1>>
            ELSE <<delta, s.theta>>

\* 1 + s.jitter*(1 - 2*u) as a fraction
JitterFactor(s, u) ==
    <<s.jitter[2] * u[2] + s.jitter[1] * (u[2] - 2 * u[1]), s.jitter[2] * u[2]>>

\* GetScore: the time score and the factor it is multiplied by
GetScore(s, signature, t, u) ==
    [time |-> GetTimeScore(s, signature, t), factor |-> JitterFactor(s, u)]

\* score > s.sMin, for score = sqrt(time) * factor
Sampled(s, score) ==
    LET lhs == score.time[1] * score.factor[1] * score.factor[1] * s.sMin[2] * s.sMin[2]
        rhs == s.sMin[1] * s.sMin[1] * score.time[2] * score.factor[2] * score.factor[2]
    IN IF score.factor[1] >= 0
       THEN s.sMin[1] < 0 \/ lhs > rhs
       ELSE s.sMin[1] < 0 /\ lhs < rhs

\* a Lock() that does not wait
CanLockAlways(s) == TRUE

\* s.mu.Lock() returns once the mutex is free
CanLock(s) == s.mu = Unlocked

NoLocals == [trace |-> <<>>, call |-> 0, signature |-> <<0, 0>>,
             score |-> [time |-> <<0, 1>>, factor |-> <<1, 1>>],
             samples |-> <<>>, view |-> {}]

InitSampler(conf) ==
    /\ sampler = NewSignatureSampler(conf)
    /\ pc = [p \in Procs |-> "idle"]
    /\ local = [p \in Procs |-> NoLocals]
    /\ now = 0
    /\ track = [calls |-> 0, flushes |-> 0, done |-> {}, accepted |-> <<>>,
                returned |-> <<>>]

\* a panic in any goroutine ends the program
Crashed == \E p \in Procs : pc[p] = "panic"

\* AddTrace, line 52: the call starts and computes the signature, or panics
AddBegin(p, trace) ==
    /\ ~Crashed /\ Starter(p)
    /\ track.calls + track.flushes < MaxCalls
    /\ track' = [track EXCEPT !.calls = @ + 1]
    /\ IF SignaturePanics(trace)
       THEN /\ pc' = [pc EXCEPT ![p] = "panic"]
            /\ local' = [local EXCEPT ![p] = [NoLocals EXCEPT !.trace = trace,
                                                     !.call = track.calls + 1]]
       ELSE /\ pc' = [pc EXCEPT ![p] = "add_lock"]
            /\ local' = [local EXCEPT ![p] =
                            [NoLocals EXCEPT !.trace = trace,
                                             !.call = track.calls + 1,
                                             !.signature = ComputeSignature(trace)]]
    /\ UNCHANGED <<sampler, now>>

\* AddTrace, line 54: s.mu.Lock()
AddLock(p) ==
    /\ ~Crashed /\ pc[p] = "add_lock"
    /\ CanLock(sampler)
    /\ sampler' = [sampler EXCEPT !.mu = p]
    /\ pc' = [pc EXCEPT ![p] = "add_score"]
    /\ UNCHANGED <<local, now, track>>

\* AddTrace, line 56: score := s.GetScore(signature)
AddScore(p, u) ==
    /\ ~Crashed /\ pc[p] = "add_score"
    /\ local' = [local EXCEPT ![p].score = GetScore(sampler, local[p].signature, now, u)]
    /\ pc' = [pc EXCEPT ![p] = "add_decide"]
    /\ UNCHANGED <<sampler, now, track>>

\* a map that is never written
SetLastTSNever(m, signature, t) == m

\* s.lastTSBySignature[signature] = now
SetLastTS(m, signature, t) ==
    [g \in DOMAIN m \cup {signature} |-> IF g = signature THEN t ELSE m[g]]

\* AddTrace, lines 57-60: the trace is kept when score > s.sMin
AddDecide(p) ==
    /\ ~Crashed /\ pc[p] = "add_decide"
    /\ sampler' =
          IF Sampled(sampler, local[p].score)
          THEN [sampler EXCEPT
                   !.sampledTraces = Append(@, [trace |-> local[p].trace,
                                                call |-> local[p].call]),
                   !.lastTSBySignature = SetLastTS(@, local[p].signature, now)]
          ELSE sampler
    /\ track' = IF Sampled(sampler, local[p].score)
                THEN [track EXCEPT !.accepted = Append(@, local[p].call)]
                ELSE track
    /\ pc' = [pc EXCEPT ![p] = "add_unlock"]
    /\ UNCHANGED <<local, now>>

\* AddTrace, line 62: s.mu.Unlock()
AddUnlock(p) ==
    /\ ~Crashed /\ pc[p] = "add_unlock"
    /\ sampler' = [sampler EXCEPT !.mu = Unlocked]
    /\ track' = [track EXCEPT !.done = @ \cup {local[p].call}]
    /\ pc' = [pc EXCEPT ![p] = "add_log"]
    /\ UNCHANGED <<local, now>>

\* AddTrace, line 64: the debug line (reads trace[0]) and the return
AddLog(p) ==
    /\ ~Crashed /\ pc[p] = "add_log"
    /\ pc' = [pc EXCEPT ![p] = "idle"]
    /\ local' = [local EXCEPT ![p] = NoLocals]
    /\ UNCHANGED <<sampler, now, track>>

\* Flush, line 170: the call starts with s.mu.Lock()
FlushLock(p) ==
    /\ ~Crashed /\ Starter(p)
    /\ track.calls + track.flushes < MaxCalls
    /\ CanLock(sampler)
    /\ sampler' = [sampler EXCEPT !.mu = p]
    /\ track' = [track EXCEPT !.flushes = @ + 1]
    /\ local' = [local EXCEPT ![p] = [NoLocals EXCEPT !.view = track.done,
                                                     !.call = track.flushes + 1]]
    /\ pc' = [pc EXCEPT ![p] = "flush_swap"]
    /\ UNCHANGED now

\* a Flush that leaves the buffer as it is
ResetBufferKeep(s) == s

\* s.sampledTraces = []model.Trace{}
ResetBuffer(s) == [s EXCEPT !.sampledTraces = <<>>]

\* a Flush that clears the last-seen map along with the buffer
FlushSwapClearMap(p) ==
    /\ ~Crashed /\ pc[p] = "flush_swap"
    /\ local' = [local EXCEPT ![p].samples = sampler.sampledTraces]
    /\ sampler' = [sampler EXCEPT !.sampledTraces = <<>>, !.lastTSBySignature = <<>>]
    /\ pc' = [pc EXCEPT ![p] = "flush_unlock"]
    /\ UNCHANGED <<now, track>>

\* Flush, lines 171-172: the buffer is taken and replaced by an empty one
FlushSwap(p) ==
    /\ ~Crashed /\ pc[p] = "flush_swap"
    /\ local' = [local EXCEPT ![p].samples = sampler.sampledTraces]
    /\ sampler' = ResetBuffer(sampler)
    /\ pc' = [pc EXCEPT ![p] = "flush_unlock"]
    /\ UNCHANGED <<now, track>>

\* Flush, line 173: s.mu.Unlock()
FlushUnlock(p) ==
    /\ ~Crashed /\ pc[p] = "flush_unlock"
    /\ sampler' = [sampler EXCEPT !.mu = Unlocked]
    /\ pc' = [pc EXCEPT ![p] = "flush_return"]
    /\ UNCHANGED <<local, now, track>>

\* Flush, line 175: return samples
FlushReturn(p) ==
    /\ ~Crashed /\ pc[p] = "flush_return"
    /\ track' = [track EXCEPT !.returned =
                    Append(@, [samples |-> local[p].samples, view |-> local[p].view,
                               seq |-> local[p].call])]
    /\ pc' = [pc EXCEPT ![p] = "idle"]
    /\ local' = [local EXCEPT ![p] = NoLocals]
    /\ UNCHANGED <<sampler, now>>

\* the clock advances
Tick ==
    /\ ~Crashed /\ now < MaxTime
    /\ now' = now + 1
    /\ UNCHANGED <<sampler, pc, local, track>>

----------------------------------------------------------------------------
\* Operations on the summaries

InitSummaries ==
    /\ sums = [x \in Names |-> NewSummary]
    /\ mem \in [go : Builds, arrays : {<<>>}]
    /\ wire = NoWire
    /\ nextId = 1
    /\ hist = [x \in Names |-> NewHist]
    /\ wireHist = [src |-> NewSummary, hist |-> NewHist]
    /\ last = Op("NewSummary", "A", "A", 0, {})
    /\ ops = 0

\* the summaries and the memory after a call that leaves summary x as r.s and
\* the memory as r.mem
After(x, r) == Collect([sums EXCEPT ![x] = r.s], r.mem)

\* sums[x].Insert(v, nextId), the skiplist drawing n
InsertOp(x, v, n) ==
    \E r1 \in {InsertEntry(mem, sums[x], v, nextId, n)},
       r \in {After(x, SummaryInsert(mem, sums[x], v, nextId, n))} :
       /\ sums' = r.sums
       /\ mem' = r.mem
       /\ nextId' = nextId + 1
       /\ hist' = [hist EXCEPT ![x].vals[v] = @ + 1, ![x].ids = @ \cup {nextId},
                                ![x].merged = FALSE]
       /\ last' = Op("Insert", x, x, v,
                     IF r1.s.N % CompressEvery = 0
                     THEN CompressCases(r1.mem, r1.s) ELSE {})
       /\ UNCHANGED <<wire, wireHist, ops, sigs, samplerVars>>

\* sums[x].Merge(sums[y]), the k-th Skiplist.Insert drawing ns[k]
MergeOp(x, y, ns) ==
    \E merged \in {[sums[x] EXCEPT
                        !.N = sums[x].N + sums[y].N,
                        !.data = InsertAll(sums[x].data, FromHead(sums[y]), ns)]},
       r \in {After(x, Merge(mem, sums[x], sums[y], ns))} :
       /\ sums' = r.sums
       /\ mem' = r.mem
       /\ hist' = [hist EXCEPT
                     ![x].vals = [v \in AllValues |-> @[v] + hist[y].vals[v]],
                     ![x].ids = @ \cup hist[y].ids,
                     ![x].pure = FALSE,
                     ![x].merged = hist[x].pure /\ hist[y].pure]
       /\ last' = Op("Merge", x, y, 0,
                     IF sums[y].N = 0 THEN {} ELSE CompressCases(mem, merged))
       /\ ops' = ops + 1
       /\ UNCHANGED <<wire, nextId, wireHist, sigs, samplerVars>>

\* wire := sums[x].MarshalJSON()
MarshalJSONOp(x) ==
    /\ wire' = MarshalJSON(mem, sums[x])
    /\ wireHist' = [src |-> Read(mem, sums[x]), hist |-> hist[x]]
    /\ last' = Op("MarshalJSON", x, x, 0, {})
    /\ ops' = ops + 1
    /\ UNCHANGED <<sums, mem, nextId, hist, sigs, samplerVars>>

\* wire := sums[x].GobEncode()
GobEncodeOp(x) ==
    \E r \in {After(x, [s |-> GobEncodeReceiver(sums[x]), mem |-> mem])} :
       /\ wire' = GobEncode(mem, sums[x])
       /\ sums' = r.sums
       /\ mem' = r.mem
       /\ wireHist' = [src |-> Read(mem, sums[x]), hist |-> hist[x]]
       /\ last' = Op("GobEncode", x, x, 0, {})
       /\ ops' = ops + 1
       /\ UNCHANGED <<nextId, hist, sigs, samplerVars>>

\* sums[x].UnmarshalJSON(wire), the k-th Skiplist.Insert drawing ns[k];
\* "error" stands for a non-nil error returned
UnmarshalJSONOp(x, ns) ==
    \E r \in {After(x, UnmarshalJSONInto(mem, sums[x], wire, ns))} :
       /\ sums' = r.sums
       /\ mem' = r.mem
       /\ hist' = IF JSONMalformed(wire) THEN hist
                  ELSE [hist EXCEPT ![x] = [wireHist.hist EXCEPT !.pure = FALSE,
                                                                 !.merged = FALSE]]
       /\ last' = Op("UnmarshalJSON", x, x, 0,
                     IF JSONMalformed(wire) THEN {"error"} ELSE {})
       /\ ops' = ops + 1
       /\ UNCHANGED <<wire, nextId, wireHist, sigs, samplerVars>>

\* sums[x].GobDecode(wire), the k-th Skiplist.Insert drawing ns[k]; "error"
\* stands for a non-nil error returned
GobDecodeOp(x, ns) ==
    \E r \in {After(x, GobDecodeInto(mem, sums[x], wire, ns))} :
       /\ sums' = r.sums
       /\ mem' = r.mem
       /\ hist' = IF GobMalformed(wire) THEN hist
                  ELSE [hist EXCEPT ![x] = [wireHist.hist EXCEPT !.pure = FALSE,
                                                                 !.merged = FALSE]]
       /\ last' = Op("GobDecode", x, x, 0,
                     IF GobMalformed(wire) THEN {"error"} ELSE {})
       /\ ops' = ops + 1
       /\ UNCHANGED <<wire, nextId, wireHist, sigs, samplerVars>>

\* the draws of k calls of rand.Int31(), one for each Skiplist.Insert
Draws(k) == [1..k -> SummaryDraws]

----------------------------------------------------------------------------
\* Spec: one summary fed by a long stream of Insert calls.  The stream may
\* change value right after a compress (FreeSlots) and repeats its last value
\* elsewhere, so that the counter reaches the third compress.

Insert ==
    \E v \in DeepValues, n \in SummaryDraws :
        /\ sums["A"].N < MaxN
        /\ (sums["A"].N % CompressEvery) \in FreeSlots \/ v = last.v
        /\ InsertOp("A", v, n)

Init == InitSummaries /\ InitSignatures /\ InitSampler(DefaultConf)

Next == Insert

Spec == Init /\ [][Next]_vars

\* The specifications below that never append to a slice and never decode one
\* behave alike in every build: they start in the first build only.
InitNoAppend == Init /\ mem.go = "go1.15"

----------------------------------------------------------------------------
\* SpecMerge: two summaries, short streams, Merge and both wire formats.
\* (x.Merge(x) is left out: the walk over s2 would run over the nodes it adds.)

SmallInsert ==
    \E x \in Names, v \in SmallValues, n \in SummaryDraws :
        /\ nextId <= MaxInserts
        /\ InsertOp(x, v, n)

MergeInto ==
    \E x \in Names, y \in Names :
        /\ ops < MaxOps
        /\ x # y
        /\ sums[x].N + sums[y].N <= MaxMergedN
        /\ Len(sums[x].data.nodes) + Len(sums[y].data.nodes) + 1 <= MaxTuples
        /\ \E ns \in Draws(Len(sums[y].data.nodes) + 1) : MergeOp(x, y, ns)

EncodeJSON == \E x \in Names : ops < MaxOps /\ MarshalJSONOp(x)

EncodeGob == \E x \in Names : ops < MaxOps /\ GobEncodeOp(x)

DecodeJSON ==
    \E x \in Names :
        /\ ops < MaxOps
        /\ wire.fmt = "json" => Len(wire.body.data) <= MaxTuples
        /\ \E ns \in Draws(IF JSONMalformed(wire) THEN 0 ELSE Len(wire.body.data)) :
              UnmarshalJSONOp(x, ns)

DecodeGob ==
    \E x \in Names :
        /\ ops < MaxOps
        /\ wire.fmt = "gob" =>
              Len(GobField(wire.body, "EncodedData", ZeroWire)) <= MaxTuples
        /\ \E ns \in Draws(IF GobMalformed(wire) THEN 0
                             ELSE Len(GobField(wire.body, "EncodedData", ZeroWire))) :
              GobDecodeOp(x, ns)

NextMerge ==
    \/ SmallInsert
    \/ MergeInto
    \/ EncodeJSON
    \/ EncodeGob
    \/ DecodeJSON
    \/ DecodeGob

SpecMerge == Init /\ [][NextMerge]_vars

----------------------------------------------------------------------------
\* SpecShare: summaries that share Samples arrays.  A takes one value, goes
\* through JSON and is merged into the empty B, so that a node of A and a node
\* of B are slices of one array; B takes one value; A is then fed a stream
\* that runs through the third compress, and after any compress of the stream
\* B may merge A once more, which ends the run.  The steps before the stream are
\* told apart by the number of Insert calls (nextId - 1) and of other calls
\* (ops) made so far.

ShareFirstInsert ==
    \E v \in DeepValues, n \in SummaryDraws :
        /\ nextId = 1
        /\ InsertOp("A", v, n)

ShareEncode == nextId = 2 /\ ops = 0 /\ MarshalJSONOp("A")

ShareDecode ==
    /\ ops = 1
    /\ \E ns \in Draws(Len(wire.body.data)) : UnmarshalJSONOp("A", ns)

ShareFirstMerge ==
    /\ ops = 2
    /\ \E ns \in Draws(Len(sums["A"].data.nodes) + 1) : MergeOp("B", "A", ns)

ShareInsertB ==
    \E v \in DeepValues, n \in SummaryDraws :
        /\ nextId = 2 /\ ops = 3
        /\ InsertOp("B", v, n)

\* the stream into A: free in its first two values, then the same value
ShareStream ==
    \E v \in DeepValues, n \in SummaryDraws :
        /\ nextId > 2 /\ ops = 3
        /\ sums["A"].N < MaxShareN
        /\ nextId <= 4 \/ v = last.v
        /\ InsertOp("A", v, n)

ShareLastMerge ==
    /\ nextId > 2 /\ ops = 3
    /\ sums["A"].N % CompressEvery = 0
    /\ \E ns \in Draws(Len(sums["A"].data.nodes) + 1) : MergeOp("B", "A", ns)

NextShare ==
    \/ ShareFirstInsert
    \/ ShareEncode
    \/ ShareDecode
    \/ ShareFirstMerge
    \/ ShareInsertB
    \/ ShareStream
    \/ ShareLastMerge

SpecShare == Init /\ [][NextShare]_vars

----------------------------------------------------------------------------
\* SpecSkiplist: Insert and Remove on one skiplist (that of summary A), with
\* level draws that grow the list to several lanes.  The entry inserted holds
\* a fresh one-element Samples slice; the array of a removed node stays in
\* memory, where nothing refers to it.

SkipInsert ==
    \E v \in SkipValues, n \in SkipDraws :
        /\ nextId <= MaxSkipOps
        /\ Len(sums["A"].data.nodes) < MaxNodes
        /\ \E lit \in {MakeSlice(mem, <<nextId>>, 1)} :
              /\ sums' = [sums EXCEPT !["A"].data =
                             SkiplistInsert(@, Entry(v, 1, 0, lit.slice), n).sl]
              /\ mem' = lit.mem
        /\ nextId' = nextId + 1
        /\ last' = Op("SkiplistInsert", "A", "A", v, {})
        /\ UNCHANGED <<wire, hist, wireHist, ops, sigs, samplerVars>>

SkipRemove ==
    \E k \in 1..Len(sums["A"].data.nodes) :
        /\ sums' = [sums EXCEPT !["A"].data = SkiplistRemove(@, k)]
        /\ last' = Op("SkiplistRemove", "A", "A", 0, {})
        /\ UNCHANGED <<mem, wire, nextId, hist, wireHist, ops, sigs, samplerVars>>

\* SpecTall: a list that is kept short by Remove while its height grows.  A
\* panic ends the program.
TallInsert ==
    \E v \in TallValues, n \in TallDraws :
        /\ "panic" \notin last.cases
        /\ Len(sums["A"].data.nodes) < MaxTallNodes
        /\ IF SkiplistInsertPanics(sums["A"].data, n)
           THEN /\ sums' = [sums EXCEPT !["A"].data = SkiplistInsertPanicked(@)]
                /\ last' = Op("SkiplistInsert", "A", "A", v, {"panic"})
           ELSE /\ sums' = [sums EXCEPT !["A"].data =
                               SkiplistInsert(@, Entry(v, 1, 0, NilSlice), n).sl]
                /\ last' = Op("SkiplistInsert", "A", "A", v, {})
        /\ UNCHANGED <<mem, wire, nextId, hist, wireHist, ops, sigs, samplerVars>>

TallRemove ==
    \E k \in 1..Len(sums["A"].data.nodes) :
        /\ "panic" \notin last.cases
        /\ sums' = [sums EXCEPT !["A"].data = SkiplistRemove(@, k)]
        /\ last' = Op("SkiplistRemove", "A", "A", 0, {})
        /\ UNCHANGED <<mem, wire, nextId, hist, wireHist, ops, sigs, samplerVars>>

NextTall ==
    \/ TallInsert
    \/ TallRemove

SpecTall == InitNoAppend /\ [][NextTall]_vars

NextSkiplist ==
    \/ SkipInsert
    \/ SkipRemove

SpecSkiplist == InitNoAppend /\ [][NextSkiplist]_vars

----------------------------------------------------------------------------
\* SpecSignature: ComputeSignature applied to two traces, once each

Compute ==
    \E slot \in {1, 2}, trace \in Traces(MaxSpans) :
        ~sigs[slot].done /\ ComputeOp(slot, trace)

NextSignature == Compute

SpecSignature == InitNoAppend /\ [][NextSignature]_vars

----------------------------------------------------------------------------
\* SpecSampler: goroutines calling AddTrace and Flush on one sampler

AddTraceStart == \E p \in Procs, trace \in SamplerTraces :
                    AddBegin(p, trace) /\ UNCHANGED <<summaryVars, sigs>>
AddTraceLock == \E p \in Procs : AddLock(p) /\ UNCHANGED <<summaryVars, sigs>>
AddTraceScore == \E p \in Procs, u \in USet :
                    AddScore(p, u) /\ UNCHANGED <<summaryVars, sigs>>
AddTraceDecide == \E p \in Procs : AddDecide(p) /\ UNCHANGED <<summaryVars, sigs>>
AddTraceUnlock == \E p \in Procs : AddUnlock(p) /\ UNCHANGED <<summaryVars, sigs>>
AddTraceLog == \E p \in Procs : AddLog(p) /\ UNCHANGED <<summaryVars, sigs>>
FlushStart == \E p \in Procs : FlushLock(p) /\ UNCHANGED <<summaryVars, sigs>>
FlushTake == \E p \in Procs : FlushSwap(p) /\ UNCHANGED <<summaryVars, sigs>>
FlushRelease == \E p \in Procs : FlushUnlock(p) /\ UNCHANGED <<summaryVars, sigs>>
FlushDone == \E p \in Procs : FlushReturn(p) /\ UNCHANGED <<summaryVars, sigs>>
ClockTick == Tick /\ UNCHANGED <<summaryVars, sigs>>

InitSamplerSpec ==
    /\ InitSummaries /\ InitSignatures
    /\ mem.go = "go1.15"
    /\ \E conf \in ConfSet : InitSampler(conf)

NextSampler ==
    \/ AddTraceStart
    \/ AddTraceLock
    \/ AddTraceScore
    \/ AddTraceDecide
    \/ AddTraceUnlock
    \/ AddTraceLog
    \/ FlushStart
    \/ FlushTake
    \/ FlushRelease
    \/ FlushDone
    \/ ClockTick

SpecSampler == InitSamplerSpec /\ [][NextSampler]_vars

----------------------------------------------------------------------------
\* Properties

\* the summaries as a caller reads them
observed == [x \in Names |-> Read(mem, sums[x])]

RECURSIVE SumOver(_, _)
SumOver(f, S) ==
    IF S = {} THEN 0
    ELSE LET x == CHOOSE y \in S : TRUE IN f[x] + SumOver(f, S \ {x})

\* the ranks (1-based positions) the value v holds in the sorted multiset cnt
RankLo(cnt, v) == 1 + SumOver(cnt, {w \in DOMAIN cnt : w < v})
RankHi(cnt, v) == SumOver(cnt, {w \in DOMAIN cnt : w <= v})

\* the distance from r to the nearest rank of v
RankDist(cnt, v, r) ==
    IF r < RankLo(cnt, v) THEN RankLo(cnt, v) - r
    ELSE IF r > RankHi(cnt, v) THEN r - RankHi(cnt, v)
    ELSE 0

\* ceil(EPSILON * n)
CeilEpsN(n) == (EpsNum * n + EpsDen - 1) \div EpsDen

SumG(ts) == SumOver([k \in DOMAIN ts |-> ts[k].G], DOMAIN ts)

\* C1: for a summary built by Insert calls only and every queried q, the
\* value Quantile(q) returns was inserted and has a rank within ceil(EPSILON*N)
\* of floor(q*N + 0.5).
C1_RankApproximation ==
    \A x \in Names :
        (hist[x].pure /\ sums[x].N > 0) =>
            \A q \in QSet :
                LET res == Quantile(sums[x], q)
                IN /\ res.ok
                   /\ res.V \in AllValues
                   /\ hist[x].vals[res.V] > 0
                   /\ RankDist(hist[x].vals, res.V, QuantileRank(sums[x].N, q))
                          <= CeilEpsN(sums[x].N)

\* C2: in a summary built by Insert calls only, the sum of g over the data
\* tuples equals N.
C2_SumOfGIsN ==
    \A x \in Names : hist[x].pure => SumG(Tuples(sums[x])) = sums[x].N

\* C3: after every Insert, every interior data tuple has
\* g + delta <= floor(2*EPSILON*N).
C3_BandBound ==
    last.op = "Insert" =>
        LET ts == Tuples(sums[last.x])
        IN \A k \in DOMAIN ts :
              (1 < k /\ k < Len(ts)) => ts[k].G + ts[k].Delta <= TwoEpsN(sums[last.x].N)

\* C8: in a summary built by Insert calls only, the samples of the slices of
\* BySlices() together are exactly the span ids passed to Insert.
C8_SamplesCoverage ==
    \A x \in Names :
        hist[x].pure =>
            LET sl == BySlices(sums[x])
            IN UNION {LET ids == Elems(mem, sl[k].Samples)
                      IN {ids[i] : i \in DOMAIN ids} : k \in DOMAIN sl}
                   = hist[x].ids

\* a compress that removed tuples by both merges has just run
C8_Witness ==
    /\ last.op = "Insert"
    /\ {"value", "band"} \subseteq last.cases
    /\ Cardinality(hist["A"].ids) > Len(sums["A"].data.nodes)

\* C4: after a decode, the receiver has the N, the BySlices(), the quantiles
\* and the data tuples of the summary (built by Insert calls) that was encoded.
C4_RoundTrip ==
    (last.op \in {"UnmarshalJSON", "GobDecode"} /\ "error" \notin last.cases
        /\ wireHist.hist.pure /\ wireHist.src.N > 0) =>
        LET d == observed[last.x]
            s == wireHist.src
        IN /\ d.N = s.N
           /\ BySlices(d) = BySlices(s)
           /\ \A q \in QSet : Quantile(d, q) = Quantile(s, q)
           /\ Tuples(d) = Tuples(s)

\* C5: x.Merge(y) adds y.N to x.N and leaves y as it was; when y.N = 0 it
\* leaves x as it was too.
C5_MergeAdditivity ==
    [][last'.op = "Merge" =>
          LET x == last'.x
              y == last'.y
          IN /\ sums'[x].N = sums[x].N + sums[y].N
             /\ observed'[y] = observed[y]
             /\ sums[y].N = 0 => observed'[x] = observed[x]]_vars

\* a Merge of a non-empty summary into a non-empty one has just run
C5_Witness ==
    /\ last.op = "Merge"
    /\ sums[last.y].N > 0
    /\ sums[last.x].N > sums[last.y].N

\* C6: after x.Merge(y), x and y built by Insert calls only, the value
\* Quantile(q) returns was inserted into x or y and has a rank within
\* EPSILON*(x.N + y.N) of floor(q*N + 0.5).  Stated for the q whose target
\* rank is a rank (ranks count from 1) and for a y that is not empty.
C6_MergedRank ==
    (last.op = "Merge" /\ hist[last.x].merged /\ sums[last.y].N > 0) =>
        \A q \in QSet :
            LET s   == sums[last.x]
                res == Quantile(s, q)
                r   == QuantileRank(s.N, q)
            IN r >= 1 =>
                  /\ res.ok
                  /\ res.V \in AllValues
                  /\ hist[last.x].vals[res.V] > 0
                  /\ RankDist(hist[last.x].vals, res.V, r) * EpsDen <= EpsNum * s.N

Sorted(nodes) ==
    \A j \in 1..(Len(nodes) - 1) : nodes[j].value.V <= nodes[j + 1].value.V

\* C7: the data nodes are in non-decreasing order of v on lane 0, and
\* Skiplist.Insert puts the new node right after the last node whose v is
\* not greater than its own, leaving the other nodes as they were.
C7_Order ==
    [][/\ Sorted(sums'["A"].data.nodes)
       /\ last'.op = "SkiplistInsert" =>
             \A pre \in {observed["A"].data.nodes}, post \in {observed'["A"].data.nodes} :
                \E k \in 1..Len(post) :
                   /\ post[k].value = Entry(last'.v, 1, 0, <<nextId>>)
                   /\ RemoveAt(post, k) = pre
                   /\ \A j \in 1..(k - 1) : post[j].value.V <= last'.v
                   /\ \A j \in (k + 1)..Len(post) : post[j].value.V > last'.v]_vars

\* an insert has just put its node behind a node of equal value, in a list of
\* several lanes from which a node was removed before
C7_Witness ==
    /\ last.op = "SkiplistInsert"
    /\ sums["A"].data.height >= 2
    /\ Len(sums["A"].data.nodes) < nextId - 1
    /\ \E k \in 2..Len(sums["A"].data.nodes) :
          /\ observed["A"].data.nodes[k].value.Samples = <<nextId - 1>>
          /\ sums["A"].data.nodes[k - 1].value.V = sums["A"].data.nodes[k].value.V

\* the (service, name, resource, error) of a root span
RootKey(span) == <<span.Service, span.Name, span.Resource, ErrorByte(span)>>

\* the (service, name, error) triple of a span
SpanKey(span) == <<span.Service, span.Name, ErrorByte(span)>>

CountKey(trace, key) == Cardinality({i \in DOMAIN trace : SpanKey(trace[i]) = key})

SameMultiset(t1, t2) ==
    /\ Len(t1) = Len(t2)
    /\ \A i \in DOMAIN t1 : CountKey(t1, SpanKey(t1[i])) = CountKey(t2, SpanKey(t1[i]))

\* C10: two traces whose roots (as getRoot picks them) agree on (service,
\* name, resource, error) and whose spans have the same multiset of (service,
\* name, error) get the same signature.
C10_SignatureStable ==
    (sigs[1].done /\ sigs[2].done
        /\ RootKey(getRoot(sigs[1].trace)) = RootKey(getRoot(sigs[2].trace))
        /\ SameMultiset(sigs[1].trace, sigs[2].trace))
    => sigs[1].sig = sigs[2].sig

\* two different orders of a trace with a repeated span have been signed
C10_Witness ==
    /\ sigs[1].done /\ sigs[2].done
    /\ Len(sigs[1].trace) = 3
    /\ sigs[1].trace # sigs[2].trace
    /\ sigs[1].trace[1] = sigs[1].trace[3]
    /\ sigs[1].trace[1] # sigs[1].trace[2]
    /\ RootKey(getRoot(sigs[1].trace)) = RootKey(getRoot(sigs[2].trace))
    /\ SameMultiset(sigs[1].trace, sigs[2].trace)

\* the goroutines between s.mu.Lock() and s.mu.Unlock()
InCriticalSection ==
    {p \in Procs : pc[p] \in {"add_score", "add_decide", "add_unlock",
                               "flush_swap", "flush_unlock"}}

\* every trace of the slice was appended by a call whose critical section had
\* completed when the Flush took the lock
FlushedBefore(samples, view) ==
    \A i \in 1..Len(samples) : samples[i].call \in view

\* C9: under every interleaving of AddTrace and Flush calls on one sampler, at
\* most one call is inside its critical section, and every trace in the slice a
\* Flush returns was appended by an AddTrace whose critical section completed
\* before that Flush's critical section began.
C9_MutualExclusion ==
    /\ Cardinality(InCriticalSection) <= 1
    /\ \A p \in Procs :
          pc[p] \in {"flush_unlock", "flush_return"}
             => FlushedBefore(local[p].samples, local[p].view)
    /\ \A i \in 1..Len(track.returned) :
          FlushedBefore(track.returned[i].samples, track.returned[i].view)

\* C9 witness: a Flush has returned a non-empty slice while an AddTrace that
\* started before the Flush's lock completed its critical section after it.
C9_Witness ==
    /\ Len(track.returned) > 0
    /\ Len(track.returned[1].samples) > 0
    /\ \E c \in track.done : c \notin track.returned[1].view
    /\ Len(sampler.sampledTraces) > 0

\* C11: AddTrace, ComputeSignature and Flush complete without a panic for every
\* trace offered, the trace with no span included: no goroutine ever stands at
\* a panic.
C11_NoPanic == \A p \in Procs : pc[p] # "panic"

\* the AddTrace calls that have sampled their trace and left the critical
\* section's writes behind them
HasSampled(p) ==
    pc[p] \in {"add_unlock", "add_log"} /\ Sampled(sampler, local[p].score)

\* C12: once AddTrace has sampled a trace, its signature is in the last-seen
\* map, and GetTimeScore of that signature is 0 as long as the clock has not
\* passed the recorded timestamp.
C12_Recency ==
    \A p \in Procs :
        HasSampled(p) =>
            LET signature == local[p].signature
            IN /\ signature \in DOMAIN sampler.lastTSBySignature
               /\ now <= sampler.lastTSBySignature[signature]
                     => GetTimeScore(sampler, signature, now)[1] = 0

\* C12 witness: a trace whose signature had been seen before was sampled again,
\* and the clock still shows the recorded timestamp
C12_Witness ==
    \E p \in Procs :
        /\ HasSampled(p) /\ pc[p] = "add_log"
        /\ local[p].score.time # <<25, 1>>
        /\ sampler.lastTSBySignature[local[p].signature] = now

\* s.sMin < 5*(1 - s.jitter)
SMinBelowFirstSeen(s) ==
    s.sMin[1] * s.jitter[2] < 5 * (s.jitter[2] - s.jitter[1]) * s.sMin[2]

\* C13: for a signature absent from the last-seen map GetTimeScore is 5, and
\* when sMin < 5*(1 - jitter) the AddTrace appends the trace to the buffer and
\* records the clock as its timestamp, whatever the random draw.
C13_FirstSeen ==
    [][\A p \in Procs :
          local[p].signature \notin DOMAIN sampler.lastTSBySignature =>
             /\ (pc[p] = "add_score" /\ pc'[p] = "add_decide")
                   => local'[p].score.time = <<25, 1>>
             /\ (pc[p] = "add_decide" /\ pc'[p] = "add_unlock"
                    /\ SMinBelowFirstSeen(sampler))
                   => /\ sampler'.sampledTraces =
                            Append(sampler.sampledTraces,
                                   [trace |-> local[p].trace, call |-> local[p].call])
                      /\ local[p].signature \in DOMAIN sampler'.lastTSBySignature
                      /\ sampler'.lastTSBySignature[local[p].signature] = now]_vars

\* C13 witness: a first-seen trace was sampled on the largest draw offered
C13_Witness ==
    \E p \in Procs :
        /\ pc[p] = "add_unlock"
        /\ SMinBelowFirstSeen(sampler)
        /\ local[p].score = [time |-> <<25, 1>>, factor |-> <<18, 32>>]
        /\ \E i \in 1..Len(sampler.sampledTraces) :
              sampler.sampledTraces[i].call = local[p].call

\* C14: Quantile(q) of a summary that holds a data tuple returns the value and
\* the samples of one of its tuples; the "not reached" panic is taken exactly
\* when the summary holds no data tuple.
C14_QuantileReturns ==
    \A x \in Names, q \in QSet :
        LET res == Quantile(observed[x], q)
            ts  == Tuples(observed[x])
        IN IF ts = <<>>
           THEN ~res.ok
           ELSE /\ res.ok
                /\ \E k \in 1..Len(ts) :
                      ts[k].V = res.V /\ ts[k].Samples = res.Samples

\* C14 witness: a Merge has left a summary of several tuples, which answers,
\* next to a summary with no tuple, which panics
C14_Witness ==
    /\ last.op = "Merge"
    /\ Len(sums[last.x].data.nodes) >= 2
    /\ Quantile(sums[last.x], <<2, 4>>).ok
    /\ \E y \in Names :
          sums[y].data.nodes = <<>> /\ ~Quantile(sums[y], <<2, 4>>).ok

\* C15: UnmarshalJSON and GobDecode given a malformed payload return the
\* decoder's error and leave the receiver as it was: its tuples, its N and its
\* EncodedData.
C15_DecodeFailure ==
    [][((last'.op = "UnmarshalJSON" /\ JSONMalformed(wire))
          \/ (last'.op = "GobDecode" /\ GobMalformed(wire)))
        => /\ "error" \in last'.cases
           /\ observed' = observed]_vars

\* C15 witness: a summary that holds data was handed gob bytes by way of
\* UnmarshalJSON and got the error
C15_Witness ==
    /\ last.op = "UnmarshalJSON"
    /\ "error" \in last.cases
    /\ wire.fmt = "gob"
    /\ sums[last.x].N > 0
    /\ sums[last.x].EncodedData # <<>>

\* C16: Skiplist.Insert never fails: no Insert panics, and the height of the
\* list is always an index of the head's next array (0 .. maxHeight - 1).
C16_InsertInBounds ==
    /\ "panic" \notin last.cases
    /\ \A x \in Names : sums[x].data.height < maxHeight

\* C17: after every Summary.Insert, those that compress included, the first and
\* the last data tuple have delta = 0, and a tuple's delta, given to it when it
\* was inserted in the interior, is at most floor(2*EPSILON*N).
C17_EndsExact ==
    LET ts == Tuples(sums["A"])
    IN ts # <<>> =>
          /\ ts[1].Delta = 0
          /\ ts[Len(ts)].Delta = 0
          /\ \A k \in 1..Len(ts) : ts[k].Delta <= TwoEpsN(sums["A"].N)

StrictlyAscending(ts) == \A k \in 1..(Len(ts) - 1) : ts[k].V < ts[k + 1].V

IsPrefix(a, b) == Len(a) <= Len(b) /\ SubSeq(b, 1, Len(a)) = a

\* C18: when compress returns (inside the Insert that makes N a multiple of
\* CompressEvery), the values of the data tuples are strictly ascending, the
\* tuple that was last before the sweep is still the last one (its value, and
\* its samples in front of those it took over), and N is what it was.
C18_AfterCompress ==
    [][(last'.op = "Insert" /\ sums'["A"].N % CompressEvery = 0) =>
          \A pre \in {InsertEntry(mem, sums["A"], last'.v, nextId, 0)} :
              LET post == sums'["A"]
                  a    == pre.s.data.nodes
                  b    == post.data.nodes
              IN /\ StrictlyAscending(Tuples(post))
                 /\ b # <<>>
                 /\ b[Len(b)].value.V = a[Len(a)].value.V
                 /\ \A was \in {Elems(pre.mem, a[Len(a)].value.Samples)},
                       is \in {Elems(mem', b[Len(b)].value.Samples)} :
                         IsPrefix(was, is)
                 /\ post.N = pre.s.N]_vars

\* C18 witness: the second compress or a later one has run, it has merged equal
\* values and kept unequal ones, and more than one tuple is left
C18_Witness ==
    /\ last.op = "Insert"
    /\ sums["A"].N >= 2 * CompressEvery
    /\ sums["A"].N % CompressEvery = 0
    /\ {"value", "none"} \subseteq last.cases
    /\ Len(sums["A"].data.nodes) >= 2

\* goroutine p takes the step of AddTrace that decides on its trace
Decides(p) == pc[p] = "add_decide" /\ pc'[p] = "add_unlock"

\* goroutine p takes a step of Flush
FlushSteps(p) ==
    \/ pc[p] = "idle" /\ pc'[p] = "flush_swap"
    \/ pc[p] \in {"flush_swap", "flush_unlock", "flush_return"} /\ pc'[p] # pc[p]

\* C19: the last-seen map changes only in the step of an AddTrace that appends
\* its trace to the buffer, and only at that trace's signature; an AddTrace
\* whose score is not above sMin leaves the buffer and the map as they were;
\* no step, Flush included, removes a key.
C19_MapFrame ==
    [][LET map  == sampler.lastTSBySignature
           map2 == sampler'.lastTSBySignature
       IN /\ DOMAIN map \subseteq DOMAIN map2
          /\ map2 # map =>
                \E p \in Procs :
                    /\ Decides(p)
                    /\ sampler'.sampledTraces =
                          Append(sampler.sampledTraces,
                                 [trace |-> local[p].trace, call |-> local[p].call])
                    /\ DOMAIN map2 = DOMAIN map \cup {local[p].signature}
                    /\ \A g \in DOMAIN map \ {local[p].signature} : map2[g] = map[g]
          /\ \A p \in Procs :
                (Decides(p) /\ ~Sampled(sampler, local[p].score)) =>
                    /\ sampler'.sampledTraces = sampler.sampledTraces
                    /\ map2 = map
          /\ \A p \in Procs : FlushSteps(p) => map2 = map]_vars

\* C19 witness: after a Flush, with a signature in the map, an AddTrace has
\* declined its trace
C19_Witness ==
    /\ track.flushes > 0
    /\ DOMAIN sampler.lastTSBySignature # {}
    /\ \E p \in Procs :
          pc[p] = "add_unlock" /\ ~Sampled(sampler, local[p].score)

\* C20: every data tuple of a summary carries a value that was passed to Insert
\* on it or on a summary merged or decoded into it, so Quantile never reports
\* another value.
C20_OnlyInsertedValues ==
    \A x \in Names :
        /\ \A k \in 1..Len(sums[x].data.nodes) :
              LET v == sums[x].data.nodes[k].value.V
              IN v \in AllValues /\ hist[x].vals[v] > 0
        /\ \A q \in QSet :
              LET res == Quantile(sums[x], q)
              IN res.ok => (res.V \in AllValues /\ hist[x].vals[res.V] > 0)

\* the call numbers of the traces of a slice, in the order of the slice
CallsOf(samples) == [i \in 1..Len(samples) |-> samples[i].call]

\* the slice taken by the k-th Flush (in the order of the critical sections):
\* returned already, or held by the goroutine that has swapped the buffer;
\* empty while that Flush has not swapped yet
SliceOf(k) ==
    IF \E i \in 1..Len(track.returned) : track.returned[i].seq = k
    THEN track.returned[CHOOSE i \in 1..Len(track.returned) :
                            track.returned[i].seq = k].samples
    ELSE IF \E p \in Procs : pc[p] \in {"flush_unlock", "flush_return"}
                                /\ local[p].call = k
    THEN local[CHOOSE p \in Procs : pc[p] \in {"flush_unlock", "flush_return"}
                                       /\ local[p].call = k].samples
    ELSE <<>>

\* the calls taken by the first k Flushes, slice after slice
RECURSIVE Flushed(_)
Flushed(k) == IF k = 0 THEN <<>> ELSE Flushed(k - 1) \o CallsOf(SliceOf(k))

\* C21: the traces AddTrace accepted, in the order of the critical sections
\* that accepted them, are the slices of the Flushes one after the other
\* followed by the buffer: each accepted trace is in one slice or still in the
\* buffer, in none twice, slices keep the order of acceptance, and a Flush with
\* nothing accepted since the Flush before it takes the empty slice.
C21_ExactlyOnce ==
    /\ Flushed(track.flushes) \o CallsOf(sampler.sampledTraces) = track.accepted
    /\ \A i, j \in 1..Len(track.accepted) :
          track.accepted[i] = track.accepted[j] => i = j
    /\ \A i \in 1..Len(track.returned) :
          \A j \in 1..Len(track.returned[i].samples) :
              \E a \in 1..Len(track.accepted) :
                  track.accepted[a] = track.returned[i].samples[j].call

\* C21 witness: two Flushes have returned, the first with the accepted trace,
\* the second, with nothing accepted in between, with the empty slice
C21_Witness ==
    /\ Len(track.returned) = 2
    /\ Len(track.accepted) = 1
    /\ \E i, j \in 1..2 :
          /\ track.returned[i].seq = 1 /\ Len(track.returned[i].samples) = 1
          /\ track.returned[j].seq = 2 /\ track.returned[j].samples = <<>>

=============================================================================
